---- MODULE Spec2Model ----
(***************************************************************************)
(* Model of app.py of cbir-deep-learning: create_docs, the forward hook    *)
(* installed by get_features, and the check the main program applies to    *)
(* the result of create_docs.                                              *)
(*                                                                         *)
(* Python strings are sequences of one-character strings.  A numpy array   *)
(* of shape (rows, width) is a sequence of rows, each a sequence of        *)
(* integers.  Python's None is carried by an is_None field, so that every  *)
(* variable keeps one type.                                                *)
(***************************************************************************)
EXTENDS Integers, Sequences, FiniteSets, TLC

\* ------------------------------------------------------------------ bounds
MaxFiles == 2      \* longest directory listing
MaxPart  == 2      \* longest id and label of an enumerated file name
MaxExt   == 1      \* longest extension of an enumerated file name
MaxImage == 2      \* distinct image contents
EmbDim   == 2      \* width of the layer the hook is attached to
PcaDim   == 1      \* n_components of the fitted PCA

\* ------------------------------------------------------------- strings
RECURSIVE FindFrom(_, _, _)
FindFrom(s, ch, k) ==
    IF k > Len(s) THEN -1
    ELSE IF s[k] = ch THEN k - 1
    ELSE FindFrom(s, ch, k + 1)

\* str.find(ch): 0-based index of the first occurrence, -1 when absent
PyFind(s, ch) == FindFrom(s, ch, 1)

\* a slice bound as Python normalises it: negative counts from the end,
\* then clamped to 0..len
SliceIndex(x, n) ==
    IF x < 0 THEN (IF x + n < 0 THEN 0 ELSE x + n)
    ELSE (IF x > n THEN n ELSE x)

\* s[a:b]
PySlice(s, a, b) ==
    LET lo == SliceIndex(a, Len(s))
        hi == SliceIndex(b, Len(s))
    IN  IF lo < hi THEN SubSeq(s, lo + 1, hi) ELSE << >>

\* os.path.join(directory, file) for a file name that holds no separator
os_path_join(d, f) ==
    IF d = << >> THEN f
    ELSE IF d[Len(d)] = "/" THEN d \o f
    ELSE d \o <<"/">> \o f

\* file[file.find('-') + 1: file.find('.')]
LabelOf(file) == PySlice(file, PyFind(file, "-") + 1, PyFind(file, "."))

\* a slice of the id that runs one character too far
IdOf_ThroughDash(file) == PySlice(file, 0, PyFind(file, "-") + 1)

\* file[0: file.find('-')]
IdOf(file) == PySlice(file, 0, PyFind(file, "-"))

\* ------------------------------------------------------------- inputs
Corrupt == 0       \* content of a file Image.open cannot identify
Images  == 1..MaxImage

cat == <<"c", "a", "t">>
dog == <<"d", "o", "g">>
png == <<"p", "n", "g">>

\* label -> index: the label at position k maps to index k - 1
CifarMapping == <<cat, dog>>

FileNames ==
    { <<"1", "-">> \o cat \o <<".">> \o png,
      <<"2", "-">> \o dog \o <<".">> \o png,
      <<"3", "-", "o", "w", "l", ".">> \o png }

Files == [name : FileNames, image : {Corrupt} \cup Images]

\* os.listdir never lists a name twice
Listings ==
    { l \in UNION { [1..n -> Files] : n \in 0..MaxFiles } :
        \A a, b \in DOMAIN l : a # b => l[a].name # l[b].name }

Alphabet == {"c", "-", "."}
StringsUpTo(n) == UNION { [1..k -> Alphabet] : k \in 1..n }

NoneModel == [is_None |-> TRUE, hooked |-> FALSE, width |-> 0]
ModelArgs ==
    { NoneModel,
      [is_None |-> FALSE, hooked |-> TRUE,  width |-> EmbDim],
      [is_None |-> FALSE, hooked |-> FALSE, width |-> EmbDim] }

NonePca == [is_None |-> TRUE, n_features |-> 0, n_components |-> 0]
PcaArgs ==
    { NonePca,
      [is_None |-> FALSE, n_features |-> EmbDim,     n_components |-> PcaDim],
      [is_None |-> FALSE, n_features |-> EmbDim + 1, n_components |-> PcaDim] }

Directories == { <<"t">>, <<"t", "/">> }

\* --------------------------------------------------- the black-box models
RECURSIVE SumSeq(_)
SumSeq(s) == IF s = << >> THEN 0 ELSE s[1] + SumSeq(Tail(s))

RECURSIVE Flatten(_)
Flatten(rows) == IF rows = << >> THEN << >> ELSE rows[1] \o Flatten(Tail(rows))

\* output of the hooked layer for a batch holding one image
Forward(m, image) == << [j \in 1..m.width |-> image + j - 1] >>

\* pca.transform accepts a 2-D array with n_features columns
PcaAccepts(p, X) ==
    /\ X # << >>
    /\ \A k \in DOMAIN X : Len(X[k]) = p.n_features

\* a linear projection of every row onto n_components coordinates
PcaTransform(p, X) ==
    [k \in DOMAIN X |-> [c \in 1..p.n_components |-> c * SumSeq(X[k])]]

InMapping(label, mapping) == \E k \in DOMAIN mapping : mapping[k] = label

IndexOf(label, mapping) == (CHOOSE k \in DOMAIN mapping : mapping[k] = label) - 1

\* one-hot vector of len(mapping) entries
label_to_vector(label, mapping) ==
    [k \in DOMAIN mapping |-> IF k - 1 = IndexOf(label, mapping) THEN 1 ELSE 0]

\* a features vector that leaves the label vector out
Concatenate_NoLabel(embedding, label_vec) == Flatten(embedding)

\* np.concatenate((embedding, label_vec), axis=None)
Concatenate(embedding, label_vec) == Flatten(embedding) \o label_vec

\* a hook that extends the buffer instead of rebinding it
hook_Accumulates(old, output) == old \o output

\* a hook that fills the buffer only while it is empty
hook_KeepsFirst(old, output) == IF old = << >> THEN output ELSE old

\* the hook installed by get_features: rebinds the global to the detached
\* output of the layer, whatever the global held before
hook(old, output) == output

\* ---------------------------------------------------------------- state
VARIABLES
    runs,           \* the create_docs calls of this process
    directory,      \* argument directory
    dirExists,      \* os.path.isdir(directory)
    listing,        \* os.listdir(directory)
    model,          \* argument model
    pca,            \* argument pca
    mapping,        \* argument mapping
    hook_features,  \* the module-level buffer the hook writes
    pc,             \* position of each call
    i,              \* number of directory entries each call has taken
    path,           \* local path
    image,          \* content of the image behind local dataloader
    embedding,      \* local embedding
    label_str,      \* local label_str
    label_vec,      \* local label_vec
    data,           \* local data
    num_features,   \* local num_features
    result,         \* what each call returned
    mainpc          \* position of the caller of each call

vars == <<runs, directory, dirExists, listing, model, pca, mapping,
          hook_features, pc, i, path, image, embedding, label_str, label_vec,
          data, num_features, result, mainpc>>

args == <<runs, directory, dirExists, listing, model, pca, mapping>>

NoResult == [returned |-> FALSE, images_is_None |-> TRUE, images |-> << >>,
             num_features |-> 0]

Returned(images_is_None, images, n) ==
    [returned |-> TRUE, images_is_None |-> images_is_None, images |-> images,
     num_features |-> n]

\* return None, 0
Sentinel == Returned(TRUE, << >>, 0)

InitLocals ==
    /\ hook_features = << >>
    /\ pc = [r \in runs |-> "start"]
    /\ i = [r \in runs |-> 0]
    /\ path = [r \in runs |-> << >>]
    /\ image = [r \in runs |-> Corrupt]
    /\ embedding = [r \in runs |-> << >>]
    /\ label_str = [r \in runs |-> << >>]
    /\ label_vec = [r \in runs |-> << >>]
    /\ data = [r \in runs |-> << >>]
    /\ num_features = [r \in runs |-> 0]
    /\ result = [r \in runs |-> NoResult]
    /\ mainpc = [r \in runs |-> "create_docs"]

\* any arguments, over a directory of a few CIFAR-10 style files
InitArgs ==
    /\ directory \in Directories
    /\ dirExists \in BOOLEAN
    /\ listing \in (IF dirExists THEN Listings ELSE {<< >>})
    /\ model \in ModelArgs
    /\ pca \in PcaArgs
    /\ mapping = CifarMapping

\* the arguments of the main program, over a directory holding one file
\* named id-label.ext for every id, label and ext within the bounds
InitNamed ==
    /\ directory \in Directories
    /\ dirExists = TRUE
    /\ model = [is_None |-> FALSE, hooked |-> TRUE, width |-> EmbDim]
    /\ pca = [is_None |-> FALSE, n_features |-> EmbDim, n_components |-> PcaDim]
    /\ \E id \in StringsUpTo(MaxPart), label \in StringsUpTo(MaxPart),
          ext \in StringsUpTo(MaxExt) :
          /\ listing = << [name |-> id \o <<"-">> \o label \o <<".">> \o ext,
                           image |-> 1] >>
          /\ mapping \in {CifarMapping, <<label>>}

Init ==
    /\ runs = {1}
    /\ InitArgs \/ InitNamed
    /\ InitLocals

\* two calls in one process, on the same arguments
InitConc ==
    /\ runs = {1, 2}
    /\ InitArgs
    /\ directory = <<"t">>
    /\ InitLocals

\* ------------------------------------------------------------ create_docs
\* precondition tests that leave the PCA out
PreconditionFails_NoPcaTest(isdir, m, p) == (~isdir) \/ m.is_None

\* the precondition tests of lines 51-59
PreconditionFails(isdir, m, p) == (~isdir) \/ m.is_None \/ p.is_None

ReturnSentinel(r) ==
    /\ pc[r] = "start"
    /\ PreconditionFails(dirExists, model, pca)
    /\ result' = [result EXCEPT ![r] = Sentinel]
    /\ pc' = [pc EXCEPT ![r] = "returned"]
    /\ UNCHANGED <<args, hook_features, i, path, image, embedding, label_str,
                   label_vec, data, num_features, mainpc>>

EnterLoop(r) ==
    /\ pc[r] = "start"
    /\ ~PreconditionFails(dirExists, model, pca)
    /\ data' = [data EXCEPT ![r] = << >>]
    /\ num_features' = [num_features EXCEPT ![r] = 0]
    /\ pc' = [pc EXCEPT ![r] = "for"]
    /\ UNCHANGED <<args, hook_features, i, path, image, embedding, label_str,
                   label_vec, result, mainpc>>

\* for file in os.listdir(directory): path = os.path.join(directory, file)
NextFile(r) ==
    /\ pc[r] = "for"
    /\ i[r] < Len(listing)
    /\ i' = [i EXCEPT ![r] = i[r] + 1]
    /\ path' = [path EXCEPT ![r] = os_path_join(directory, listing[i[r] + 1].name)]
    /\ pc' = [pc EXCEPT ![r] = "open"]
    /\ UNCHANGED <<args, hook_features, image, embedding, label_str, label_vec,
                   data, num_features, result, mainpc>>

\* return data, num_features
ReturnData(r) ==
    /\ pc[r] = "for"
    /\ i[r] = Len(listing)
    /\ result' = [result EXCEPT ![r] = Returned(FALSE, data[r], num_features[r])]
    /\ pc' = [pc EXCEPT ![r] = "returned"]
    /\ UNCHANGED <<args, hook_features, i, path, image, embedding, label_str,
                   label_vec, data, num_features, mainpc>>

\* with Image.open(path) as image: dataset, dataloader
OpenImage(r) ==
    /\ pc[r] = "open"
    /\ listing[i[r]].image # Corrupt
    /\ image' = [image EXCEPT ![r] = listing[i[r]].image]
    /\ pc' = [pc EXCEPT ![r] = "predict"]
    /\ UNCHANGED <<args, hook_features, i, path, embedding, label_str,
                   label_vec, data, num_features, result, mainpc>>

\* Image.open raises on a file it cannot identify
OpenRaises(r) ==
    /\ pc[r] = "open"
    /\ listing[i[r]].image = Corrupt
    /\ pc' = [pc EXCEPT ![r] = "raised"]
    /\ UNCHANGED <<args, hook_features, i, path, image, embedding, label_str,
                   label_vec, data, num_features, result, mainpc>>

\* predict(dataloader, model, device): the forward pass fires the hook of a
\* model it is registered on
Predict(r) ==
    /\ pc[r] = "predict"
    /\ hook_features' = IF model.hooked
                          THEN hook(hook_features, Forward(model, image[r]))
                          ELSE hook_features
    /\ pc' = [pc EXCEPT ![r] = "read"]
    /\ UNCHANGED <<args, i, path, image, embedding, label_str, label_vec,
                   data, num_features, result, mainpc>>

\* embedding = hook_features
ReadBuffer(r) ==
    /\ pc[r] = "read"
    /\ embedding' = [embedding EXCEPT ![r] = hook_features]
    /\ pc' = [pc EXCEPT ![r] = "transform"]
    /\ UNCHANGED <<args, hook_features, i, path, image, label_str, label_vec,
                   data, num_features, result, mainpc>>

\* embedding = pca.transform(embedding)
Transform(r) ==
    /\ pc[r] = "transform"
    /\ PcaAccepts(pca, embedding[r])
    /\ embedding' = [embedding EXCEPT ![r] = PcaTransform(pca, embedding[r])]
    /\ pc' = [pc EXCEPT ![r] = "label"]
    /\ UNCHANGED <<args, hook_features, i, path, image, label_str, label_vec,
                   data, num_features, result, mainpc>>

\* pca.transform raises on an array it does not accept
TransformRaises(r) ==
    /\ pc[r] = "transform"
    /\ ~PcaAccepts(pca, embedding[r])
    /\ pc' = [pc EXCEPT ![r] = "raised"]
    /\ UNCHANGED <<args, hook_features, i, path, image, embedding, label_str,
                   label_vec, data, num_features, result, mainpc>>

\* label_str = file[file.find('-') + 1: file.find('.')]
ParseLabel(r) ==
    /\ pc[r] = "label"
    /\ label_str' = [label_str EXCEPT ![r] = LabelOf(listing[i[r]].name)]
    /\ pc' = [pc EXCEPT ![r] = "encode"]
    /\ UNCHANGED <<args, hook_features, i, path, image, embedding, label_vec,
                   data, num_features, result, mainpc>>

\* label_vec = label_to_vector(label_str, mapping)
Encode(r) ==
    /\ pc[r] = "encode"
    /\ InMapping(label_str[r], mapping)
    /\ label_vec' = [label_vec EXCEPT ![r] = label_to_vector(label_str[r], mapping)]
    /\ pc' = [pc EXCEPT ![r] = "append"]
    /\ UNCHANGED <<args, hook_features, i, path, image, embedding, label_str,
                   data, num_features, result, mainpc>>

\* an unknown label that skips the file instead of raising
EncodeRaises_SkipsFile(r) ==
    /\ pc[r] = "encode"
    /\ ~InMapping(label_str[r], mapping)
    /\ pc' = [pc EXCEPT ![r] = "for"]
    /\ UNCHANGED <<args, hook_features, i, path, image, embedding, label_str,
                   label_vec, data, num_features, result, mainpc>>

\* label_to_vector raises on a label the mapping does not hold
EncodeRaises(r) ==
    /\ pc[r] = "encode"
    /\ ~InMapping(label_str[r], mapping)
    /\ pc' = [pc EXCEPT ![r] = "raised"]
    /\ UNCHANGED <<args, hook_features, i, path, image, embedding, label_str,
                   label_vec, data, num_features, result, mainpc>>

\* the document of lines 88-93
Doc(file, p, features_vec) ==
    [id |-> IdOf(file), filename |-> file, path |-> p, features |-> features_vec]

\* a list that takes the new document at its front
AppendDoc_AtFront(docs, doc) == <<doc>> \o docs

\* documents that share the features array of the newest one
AppendDoc_SharedFeatures(docs, doc) ==
    [k \in 1..(Len(docs) + 1) |->
        IF k <= Len(docs) THEN [docs[k] EXCEPT !.features = doc.features]
        ELSE doc]

\* data.append(doc)
AppendDoc(docs, doc) == Append(docs, doc)

\* features_vec, num_features, doc, data.append(doc)
BuildDoc(r) ==
    /\ pc[r] = "append"
    /\ LET features_vec == Concatenate(embedding[r], label_vec[r])
       IN  /\ num_features' = [num_features EXCEPT ![r] = Len(features_vec)]
           /\ data' = [data EXCEPT ![r] =
                  AppendDoc(data[r], Doc(listing[i[r]].name, path[r], features_vec))]
    /\ pc' = [pc EXCEPT ![r] = "for"]
    /\ UNCHANGED <<args, hook_features, i, path, image, embedding, label_str,
                   label_vec, result, mainpc>>

\* ------------------------------------------------------------- __main__
\* the test of the caller, inverted
MainRejects_Inverted(res) == ~(res.images_is_None \/ res.num_features = 0)

\* a test of the caller that looks at the list only
MainRejects_NoneOnly(res) == res.images_is_None

\* if (images is None) or (num_features == 0)
MainRejects(res) == res.images_is_None \/ res.num_features = 0

\* logger.error, sys.exit(1)
MainExit(r) ==
    /\ mainpc[r] = "create_docs"
    /\ pc[r] = "returned"
    /\ MainRejects(result[r])
    /\ mainpc' = [mainpc EXCEPT ![r] = "exit1"]
    /\ UNCHANGED <<args, hook_features, pc, i, path, image, embedding,
                   label_str, label_vec, data, num_features, result>>

\* INDEX_NAME = 'cifar10'
MainIndexConfig(r) ==
    /\ mainpc[r] = "create_docs"
    /\ pc[r] = "returned"
    /\ ~MainRejects(result[r])
    /\ mainpc' = [mainpc EXCEPT ![r] = "index_config"]
    /\ UNCHANGED <<args, hook_features, pc, i, path, image, embedding,
                   label_str, label_vec, data, num_features, result>>

\* an exception leaving create_docs is caught nowhere
MainTraceback(r) ==
    /\ mainpc[r] = "create_docs"
    /\ pc[r] = "raised"
    /\ mainpc' = [mainpc EXCEPT ![r] = "traceback"]
    /\ UNCHANGED <<args, hook_features, pc, i, path, image, embedding,
                   label_str, label_vec, data, num_features, result>>

Next ==
    \/ \E r \in runs : ReturnSentinel(r)
    \/ \E r \in runs : EnterLoop(r)
    \/ \E r \in runs : NextFile(r)
    \/ \E r \in runs : ReturnData(r)
    \/ \E r \in runs : OpenImage(r)
    \/ \E r \in runs : OpenRaises(r)
    \/ \E r \in runs : Predict(r)
    \/ \E r \in runs : ReadBuffer(r)
    \/ \E r \in runs : Transform(r)
    \/ \E r \in runs : TransformRaises(r)
    \/ \E r \in runs : ParseLabel(r)
    \/ \E r \in runs : Encode(r)
    \/ \E r \in runs : EncodeRaises(r)
    \/ \E r \in runs : BuildDoc(r)
    \/ \E r \in runs : MainExit(r)
    \/ \E r \in runs : MainIndexConfig(r)
    \/ \E r \in runs : MainTraceback(r)

Spec == Init /\ [][Next]_vars

SpecConc == InitConc /\ [][Next]_vars

\* ------------------------------------------------------ vocabulary of the properties
ValidArgs == dirExists /\ ~model.is_None /\ ~pca.is_None

\* the documents a call holds: those it returned, else those built so far
Docs(r) == IF result[r].returned THEN result[r].images ELSE data[r]

\* the leading n_components entries of a features vector
Reduced(doc) ==
    SubSeq(doc.features, 1,
           IF pca.n_components < Len(doc.features)
             THEN pca.n_components ELSE Len(doc.features))

\* the reduced activation of the image of the k-th directory entry
OwnReduced(k) == Flatten(PcaTransform(pca, Forward(model, listing[k].image)))

\* the ways to read a file name as id + '-' + label + '.' + ext with id,
\* label and ext non-empty: the positions of the '-' and of the '.'
Decompositions(file) ==
    { d \in (1..Len(file)) \X (1..Len(file)) :
        /\ file[d[1]] = "-" /\ file[d[2]] = "."
        /\ 1 < d[1] /\ d[1] + 1 < d[2] /\ d[2] < Len(file) }

IdPart(file, d)    == SubSeq(file, 1, d[1] - 1)
LabelPart(file, d) == SubSeq(file, d[1] + 1, d[2] - 1)

Holds(s, ch) == \E k \in DOMAIN s : s[k] = ch

\* id holds neither '-' nor '.', and label holds no '.'
PlainParts(file, d) ==
    /\ ~Holds(IdPart(file, d), "-")
    /\ ~Holds(IdPart(file, d), ".")
    /\ ~Holds(LabelPart(file, d), ".")

\* the k-th entry cannot be processed with these arguments
EntryFails(k) ==
    \/ listing[k].image = Corrupt
    \/ ~model.hooked
    \/ model.width # pca.n_features
    \/ ~InMapping(LabelOf(listing[k].name), mapping)

\* C1: when the directory does not exist, or the model is None, or the PCA
\* is None, create_docs returns exactly (None, 0), and has then taken no
\* directory entry, run no forward pass and built no document.
C1_SentinelOnFailedPrecondition ==
    \A r \in runs :
        ((~dirExists \/ model.is_None \/ pca.is_None) /\ pc[r] # "start") =>
            /\ pc[r] = "returned"
            /\ result[r] = Sentinel
            /\ i[r] = 0
            /\ data[r] = << >>
            /\ hook_features = << >>

\* the PCA alone is None, over a directory that holds files
C1_Witness ==
    \E r \in runs :
        /\ result[r] = Sentinel
        /\ dirExists /\ ~model.is_None /\ pca.is_None
        /\ Len(listing) > 0

\* C2: a list returned by create_docs holds one document per directory entry,
\* the k-th carrying the file name of the k-th entry.
C2_OneDocPerEntry ==
    \A r \in runs :
        (result[r].returned /\ ~result[r].images_is_None) =>
            /\ Len(result[r].images) = Len(listing)
            /\ \A k \in 1..Len(listing) :
                  result[r].images[k].filename = listing[k].name

C2_Witness ==
    \E r \in runs :
        /\ result[r].returned /\ ~result[r].images_is_None
        /\ Len(result[r].images) >= 2

\* C3: the features vector of every document is as long as the PCA's
\* n_components plus the number of classes of the mapping.
C3_FeaturesLength ==
    \A r \in runs : \A k \in 1..Len(Docs(r)) :
        Len(Docs(r)[k].features) = pca.n_components + Len(mapping)

C3_Witness ==
    \E r \in runs :
        /\ result[r].returned /\ ~result[r].images_is_None
        /\ Len(result[r].images) >= 1

\* C4: after create_docs returned (None, 0) the main program exits with
\* status 1 and does not reach the index configuration.
C4_SentinelExits ==
    \A r \in runs :
        result[r] = Sentinel =>
            /\ mainpc[r] \in {"create_docs", "exit1"}
            /\ ENABLED MainExit(r) \/ mainpc[r] = "exit1"

C4_Witness ==
    \E r \in runs : result[r] = Sentinel /\ mainpc[r] = "exit1"

\* C5: when a directory entry fails, create_docs returns nothing, neither the
\* sentinel nor the documents built before, and the caller never gets past
\* the call.
C5_FailurePropagates ==
    \A r \in runs :
        /\ (ValidArgs /\ \E k \in 1..Len(listing) : EntryFails(k)) =>
              /\ ~result[r].returned
              /\ mainpc[r] \in {"create_docs", "traceback"}
        /\ pc[r] = "raised" =>
              /\ ~result[r].returned
              /\ mainpc[r] \in {"create_docs", "traceback"}

\* an entry failed after a document had been built
C5_Witness ==
    \E r \in runs :
        pc[r] = "raised" /\ Len(data[r]) >= 1 /\ mainpc[r] = "traceback"

\* what C6 says of one reading d of the k-th file name
C6_DocMatches(r, k, d) ==
    LET file == listing[k].name
    IN  /\ k <= Len(data[r]) =>
              /\ data[r][k].id = IdPart(file, d)
              /\ data[r][k].filename = file
              /\ data[r][k].path = os_path_join(directory, file)
        /\ (k = i[r] /\ pc[r] \in {"encode", "append"}) =>
              label_str[r] = LabelPart(file, d)

\* C6 as stated: for every reading of a file name as id-label.ext with
\* non-empty parts, the document has that id, the file name and the joined
\* path, and the label encoder is given that label.
C6_AnyParts ==
    \A r \in runs : \A k \in 1..i[r] :
        \A d \in Decompositions(listing[k].name) : C6_DocMatches(r, k, d)

\* C6 amended: the same, for an id that holds neither '-' nor '.' and a
\* label that holds no '.'.
C6_PlainParts ==
    \A r \in runs : \A k \in 1..i[r] :
        \A d \in Decompositions(listing[k].name) :
            PlainParts(listing[k].name, d) => C6_DocMatches(r, k, d)

\* a document built for a name whose label holds a '-'
C6_Witness ==
    \E r \in runs : \E k \in 1..Len(data[r]) :
        \E d \in Decompositions(listing[k].name) :
            /\ PlainParts(listing[k].name, d)
            /\ Holds(LabelPart(listing[k].name, d), "-")

\* C7: in one sequential run on a hooked model, the buffer read in an
\* iteration holds the activation of that iteration's image, and so does
\* the embedding every document is built from.
C7_OwnActivation ==
    \A r \in runs :
        model.hooked =>
            /\ pc[r] = "read" =>
                  hook_features = Forward(model, listing[i[r]].image)
            /\ pc[r] = "transform" =>
                  embedding[r] = Forward(model, listing[i[r]].image)
            /\ \A k \in 1..Len(Docs(r)) : Reduced(Docs(r)[k]) = OwnReduced(k)

\* two documents of different images, the second read after the first
C7_Witness ==
    \E r \in runs :
        /\ model.hooked
        /\ Len(data[r]) >= 2
        /\ listing[1].image # listing[2].image

\* the call r2 has run the forward pass of its j-th entry
Forwarded(r2, j) ==
    \/ j < i[r2]
    \/ j = i[r2] /\ pc[r2] \notin {"open", "predict"}

\* C8: with two calls interleaving on the one buffer, a document can be
\* built from the activation of another image, and when it is, that
\* activation is one the other call's forward pass wrote.
C8_ForeignActivation ==
    \A r \in runs : \A k \in 1..Len(Docs(r)) :
        \/ Reduced(Docs(r)[k]) = OwnReduced(k)
        \/ \E r2 \in runs \ {r} : \E j \in 1..Len(listing) :
              /\ Forwarded(r2, j)
              /\ Reduced(Docs(r)[k]) = OwnReduced(j)

\* a document built from the activation of an image other than its own
C8_Witness ==
    \E r \in runs : \E k \in 1..Len(Docs(r)) :
        /\ Cardinality(runs) = 2
        /\ Reduced(Docs(r)[k]) # OwnReduced(k)

\* C9: a step never changes a document already in the list: the documents
\* held before the step are the leading documents held after it.
C9_DocsImmutable ==
    [][\A r \in runs : \A k \in 1..Len(Docs(r)) :
          /\ k <= Len(Docs(r)')
          /\ Docs(r)'[k] = Docs(r)[k]]_vars

\* a later forward pass has overwritten the buffer a document was built from
C9_Witness ==
    \E r \in runs :
        /\ Len(data[r]) >= 1
        /\ pc[r] = "read"
        /\ Reduced(data[r][1]) # Flatten(PcaTransform(pca, hook_features))

\* C10: a returned list comes with feature count 0 exactly when it is empty,
\* else with the features length of its last document; an existing empty
\* directory with a model and a PCA gives ([], 0), and the main program
\* exits with status 1 on it.
C10_CountZeroIffEmpty ==
    \A r \in runs :
        /\ (result[r].returned /\ ~result[r].images_is_None) =>
              LET docs == result[r].images
                  n    == result[r].num_features
              IN  /\ (n = 0) <=> (docs = << >>)
                  /\ docs # << >> => n = Len(docs[Len(docs)].features)
        /\ (ValidArgs /\ listing = << >> /\ pc[r] \notin {"start", "for"}) =>
              /\ result[r] = Returned(FALSE, << >>, 0)
              /\ ENABLED MainExit(r) \/ mainpc[r] = "exit1"

C10_Witness ==
    \E r \in runs :
        /\ ValidArgs /\ listing = << >>
        /\ result[r] = Returned(FALSE, << >>, 0)
        /\ mainpc[r] = "exit1"

====
